---- MODULE Spec2Model ----
(***************************************************************************)
(* Model of stac_geoparquet/arrow/_to_arrow.py: the two generator entry     *)
(* points parse_stac_items_to_arrow and parse_stac_ndjson_to_arrow, driven  *)
(* by a caller that pulls batches one at a time.                            *)
(*                                                                          *)
(* One behaviour is one invocation.  The arguments of the invocation        *)
(* (entry, items/path content, chunk_size, schema, whether the source can   *)
(* be enumerated more than once) are chosen in Init and never change.       *)
(* The collaborators the entry points import (batched_iter,                 *)
(* read_json_chunked, stac_items_to_arrow, InferredSchema) are modelled     *)
(* from their documented contracts.                                         *)
(***************************************************************************)
EXTENDS Integers, Sequences, FiniteSets, TLC

\* Longest input (number of STAC items in the collection / in the files).
MaxLen == 3
\* Largest chunk_size tried; a chunk_size >= the input length behaves as the
\* defaults 8192 / 65536 do on a small input (one chunk holds everything).
MaxChunk == 3

VARIABLES
    entry,       \* "items" (parse_stac_items_to_arrow) or "ndjson" (parse_stac_ndjson_to_arrow)
    replayable,  \* TRUE: a list / a path, re-enumerable; FALSE: a one-shot iterator
    input,       \* the records of the source, in source order
    chunk_size,  \* the chunk_size argument
    schemaArg,   \* the schema argument of the caller's invocation
    frameSchema, \* the schema argument of the innermost active call
    frameChunk,  \* the chunk_size argument of the innermost active call
    schema,      \* the local `schema` after unwrapping (lines 44-45, 94-95)
    pc,          \* position of the generator
    requested,   \* the caller is inside next(): the generator body is running
    pulls,       \* number of next() calls the caller has made
    depth,       \* number of recursive calls made (line 89)
    inferRuns,   \* number of InferredSchema() inference passes started (line 87-88)
    inferred,    \* the InferredSchema being built by update_from_json
    pos,         \* position of the iterator over the source
    passes,      \* per enumeration of the source: <<records read, ran to exhaustion>>
    out,         \* the batches the caller has received, in order
    err          \* the exception that reached the caller, or "none"

vars == <<entry, replayable, input, chunk_size, schemaArg, frameSchema, frameChunk,
          schema, pc, requested, pulls, depth, inferRuns, inferred, pos, passes,
          out, err>>

args == <<entry, replayable, input, chunk_size, schemaArg>>

-----------------------------------------------------------------------------
(* Values, records and types *)

IntV(n)   == [k |-> "int",   v |-> n]
FloatV(n) == [k |-> "float", v |-> n]   \* v is the number in tenths: 2.5 is FloatV(25)
ListV     == [k |-> "list",  v |-> 0]
NullV     == [k |-> "null",  v |-> 0]

\* The `properties` bags the inputs are drawn from.
Shapes ==
    { ("x" :> IntV(1)),       \* {x: 1}
      ("x" :> FloatV(25)),    \* {x: 2.5}
      ("y" :> IntV(7)),       \* {y: 7}: a field the other shapes lack
      ("x" :> ListV) }        \* {x: [...]}: irreconcilable with a scalar x

\* Order in which the keys of a flattened record are visited.
FieldOrder == <<"id", "x", "y">>

Min(a, b) == IF a < b THEN a ELSE b

\* The item at position i of the source: its id is its position.
Item(i) == [id |-> i, properties |-> input[i]]

\* Items lo+1 .. hi of the source.
Items(lo, hi) == [j \in 1..(hi - lo) |-> Item(lo + j)]

\* Record Normalizer: envelope keys kept, `properties` promoted to top level.
Normalize(item) == ("id" :> IntV(item.id)) @@ item.properties

-----------------------------------------------------------------------------
(* Schema Model *)

Col(n, t) == [name |-> n, type |-> t]

Unsupported == "UnsupportedTypeError"
Mismatch    == "SchemaMismatchError"

\* A Schema Model: the columns observed so far, in order of first observation,
\* or the error that aborted the observation.
Model(e, c) == [err |-> e, cols |-> c]

\* InferredSchema(): no field observed yet.
EmptyModel == Model("none", <<>>)

\* Widening order of the scalar types.
Rank(t) == IF t = "int" THEN 1 ELSE 2

IsScalar(t) == t \in {"int", "float"}

Reconcilable(a, b) == a = b \/ (IsScalar(a) /\ IsScalar(b))

\* Least upper bound of two reconcilable types.
LeastUpperBound(a, b) == IF Rank(a) < Rank(b) THEN b ELSE a

ColIndex(c, n) ==
    IF \E i \in 1..Len(c) : c[i].name = n
    THEN CHOOSE i \in 1..Len(c) : c[i].name = n
    ELSE 0

\* observe one field of one record: a new field appends a column, a known
\* field is widened, a null is absorbed, a scalar against a list fails.
ObserveField(m, n, val) ==
    IF m.err # "none" \/ val.k = "null" THEN m
    ELSE LET i == ColIndex(m.cols, n) IN
         IF i = 0 THEN Model("none", Append(m.cols, Col(n, val.k)))
         ELSE IF ~Reconcilable(m.cols[i].type, val.k) THEN Model(Unsupported, m.cols)
         ELSE IF m.cols[i].type = val.k THEN m
         ELSE Model("none",
                    [m.cols EXCEPT ![i] = Col(n, LeastUpperBound(m.cols[i].type, val.k))])

RECURSIVE ObserveFrom(_, _, _)
ObserveFrom(m, frec, k) ==
    IF k > Len(FieldOrder) THEN m
    ELSE LET n == FieldOrder[k] IN
         ObserveFrom(IF n \in DOMAIN frec THEN ObserveField(m, n, frec[n]) ELSE m,
                     frec, k + 1)

\* observe(flattenedRecord)
Observe(m, frec) == ObserveFrom(m, frec, 1)

\* InferredSchema.update_from_items: fold a chunk into the running model.
RECURSIVE UpdateFromItems(_, _)
UpdateFromItems(m, chunk) ==
    IF chunk = <<>> THEN m
    ELSE UpdateFromItems(Observe(m, Normalize(Head(chunk))), Tail(chunk))

-----------------------------------------------------------------------------
(* Batch Encoder *)

Coercible(val, t) ==
    \/ val.k = "null"
    \/ val.k = t
    \/ val.k = "int" /\ t = "float"

\* The value as stored in a column of type t.
Coerce(val, t) ==
    IF val.k = "int" /\ t = "float" THEN FloatV(val.v * 10) ELSE val

Names(s) == {s[i].name : i \in 1..Len(s)}

\* A flattened record fits the schema: no unknown field, every value coercible.
Fits(frec, s) ==
    /\ DOMAIN frec \subseteq Names(s)
    /\ \A i \in 1..Len(s) :
          s[i].name \in DOMAIN frec => Coercible(frec[s[i].name], s[i].type)

\* One row: one value per column of the schema, null where the field is absent.
EncodeRow(frec, s) ==
    [i \in 1..Len(s) |->
        IF s[i].name \in DOMAIN frec THEN Coerce(frec[s[i].name], s[i].type)
        ELSE NullV]

\* The result of encoding: a batch, or the error that aborted it.
Batch(e, s, r) == [err |-> e, schema |-> s, rows |-> r]

\* encode(records, schema): all or nothing.
Encode(chunk, s) ==
    IF \A j \in 1..Len(chunk) : Fits(Normalize(chunk[j]), s)
    THEN Batch("none", s, [j \in 1..Len(chunk) |-> EncodeRow(Normalize(chunk[j]), s)])
    ELSE Batch(Mismatch, s, <<>>)

\* The schema arguments: None, a pyarrow schema, an InferredSchema wrapping one.
NoSchema         == [kind |-> "None",     cols |-> <<>>]
PaSchema(c)      == [kind |-> "pa",       cols |-> c]
InferredSchema(c) == [kind |-> "Inferred", cols |-> c]

\* stac_items_to_arrow(items, schema=schema) with a pyarrow schema.
stac_items_to_arrow(chunk, s) == Encode(chunk, s)

\* stac_items_to_arrow(items): the schema is inferred from exactly these items.
stac_items_to_arrow_infer(chunk) ==
    LET m == UpdateFromItems(EmptyModel, chunk) IN
    IF m.err # "none" THEN Batch(m.err, <<>>, <<>>) ELSE Encode(chunk, m.cols)

\* batched_iter / read_json_chunked: the next chunk ends after n more records
\* or at the end of the source, whichever comes first.
ChunkEnd(p, n) == Min(p + n, Len(input))

-----------------------------------------------------------------------------
(* The invocation *)

\* The default chunk_size of parse_stac_items_to_arrow.
ItemsDefaultChunkSize == 8192
\* The default chunk_size of parse_stac_ndjson_to_arrow.
NdjsonDefaultChunkSize == 65536

\* Schemas a caller supplies.
SchemaFull   == <<Col("id", "int"), Col("x", "float"), Col("y", "int")>>
SchemaNarrow == <<Col("id", "int"), Col("x", "int")>>
SuppliedSchemas == {SchemaFull, SchemaNarrow}

SchemaArgs ==
    {NoSchema} \cup {PaSchema(c) : c \in SuppliedSchemas}
               \cup {InferredSchema(c) : c \in SuppliedSchemas}

Inputs == UNION {[1..n -> Shapes] : n \in 0..MaxLen}

Init ==
    /\ entry \in {"items", "ndjson"}
    /\ replayable \in BOOLEAN
    /\ input \in Inputs
    /\ chunk_size \in 1..MaxChunk
    /\ schemaArg \in SchemaArgs
    /\ frameSchema = schemaArg
    /\ frameChunk = chunk_size
    /\ schema = <<>>
    /\ pc = "call"
    /\ requested = FALSE
    /\ pulls = 0
    /\ depth = 0
    /\ inferRuns = 0
    /\ inferred = EmptyModel
    /\ pos = 0
    /\ passes = <<>>
    /\ out = <<>>
    /\ err = "none"

Terminal == {"done", "failed", "closed"}

-----------------------------------------------------------------------------
(* Generator mechanics *)

\* A generator body runs only inside a next() call of the caller.
\* Fault variant: an ordinary function, whose body runs at call time.
BodyRunsEagerly == TRUE
BodyMayRun == requested

\* `yield b`: the batch is handed to the caller and the body is suspended
\* at position p.
Yield(b, p) ==
    /\ out' = Append(out, [schema |-> b.schema, rows |-> b.rows])
    /\ requested' = FALSE
    /\ pc' = p
    /\ err' = err

\* Fault variant: the exception is caught and the loop goes on (skip-and-continue).
Swallow(e, p) ==
    /\ out' = out
    /\ requested' = requested
    /\ pc' = p
    /\ err' = err

\* An exception raised in the body is not caught: it leaves the generator,
\* reaches the caller of next() and finishes the generator.
Raise(e, p) ==
    /\ out' = out
    /\ requested' = FALSE
    /\ pc' = "failed"
    /\ err' = e

\* The body returns: StopIteration reaches the caller.
Return ==
    /\ out' = out
    /\ requested' = FALSE
    /\ pc' = "done"
    /\ err' = err

\* iter(source): a re-enumerable source starts over, a one-shot iterator
\* continues where its last consumer left it.
OpenPass ==
    /\ pos' = (IF replayable THEN 0 ELSE pos)
    /\ passes' = Append(passes, [read |-> 0, exhausted |-> FALSE])

\* k more records were taken from the source in the current enumeration.
Took(k) ==
    passes' = [passes EXCEPT ![Len(passes)].read = @ + k]

\* The current enumeration found the source exhausted.
SawEnd ==
    passes' = [passes EXCEPT ![Len(passes)].exhausted = TRUE]

\* The caller calls next() on the generator.
Pull ==
    /\ ~requested
    /\ pc \notin Terminal
    /\ requested' = TRUE
    /\ pulls' = pulls + 1
    /\ UNCHANGED <<args, frameSchema, frameChunk, schema, pc, depth, inferRuns,
                   inferred, pos, passes, out, err>>

\* The caller stops iterating and drops (closes) the suspended generator.
Close ==
    /\ ~requested
    /\ pc \notin Terminal
    /\ pc' = "closed"
    /\ UNCHANGED <<args, frameSchema, frameChunk, schema, requested, pulls, depth,
                   inferRuns, inferred, pos, passes, out, err>>

-----------------------------------------------------------------------------
(* parse_stac_items_to_arrow *)

\* Lines 44-45 and 94-95: an InferredSchema is replaced by its inner schema.
Unwrap(s) == s.cols

\* Line 49: the chunk size handed to batched_iter.
\* Fault variant: chunks one record too long.
ItemsChunkSizeOffByOne == frameChunk + 1
ItemsChunkSize == frameChunk

\* Line 50: the batch of one chunk.
\* Fault variant: the schema is not passed on, each chunk infers its own.
ItemsBatchInferPerChunk(chunk, s) == stac_items_to_arrow_infer(chunk)
ItemsBatch(chunk, s) == stac_items_to_arrow(chunk, s)

\* Line 57: the items encoded in the single batch of the no-schema branch.
\* Fault variant: only the first chunk_size items are encoded.
SingleBatchItemsFirstChunk == Items(pos, ChunkEnd(pos, frameChunk))
SingleBatchItems == Items(pos, Len(input))

\* Line 43: the body starts and dispatches on the schema.
ItemsStart ==
    /\ entry = "items" /\ pc = "call" /\ BodyMayRun
    /\ IF frameSchema.kind # "None"
       THEN /\ schema' = Unwrap(frameSchema)
            /\ OpenPass
            /\ pc' = "encode"
       ELSE /\ pc' = "single"
            /\ UNCHANGED <<schema, pos, passes>>
    /\ UNCHANGED <<args, frameSchema, frameChunk, requested, pulls, depth, inferRuns,
                   inferred, out, err>>

\* Lines 49-50: one iteration of the chunk loop.
ItemsEncodeChunk ==
    /\ entry = "items" /\ pc = "encode" /\ BodyMayRun
    /\ pos < Len(input)
    /\ LET end   == ChunkEnd(pos, ItemsChunkSize)
           chunk == Items(pos, end)
           b     == ItemsBatch(chunk, schema)
       IN /\ pos' = end
          /\ Took(end - pos)
          /\ IF b.err # "none" THEN Raise(b.err, "encode") ELSE Yield(b, "encode")
    /\ UNCHANGED <<args, frameSchema, frameChunk, schema, pulls, depth, inferRuns, inferred>>

\* Line 49: batched_iter is exhausted, the loop and the body end.
ItemsExhausted ==
    /\ entry = "items" /\ pc = "encode" /\ BodyMayRun
    /\ pos >= Len(input)
    /\ SawEnd
    /\ Return
    /\ UNCHANGED <<args, frameSchema, frameChunk, schema, pulls, depth, inferRuns,
                   inferred, pos>>

\* Line 57: the whole collection becomes one batch.
ItemsSingle ==
    /\ entry = "items" /\ pc = "single" /\ BodyMayRun
    /\ LET all == SingleBatchItems
           b   == stac_items_to_arrow_infer(all)
       IN /\ pos' = pos + Len(all)
          /\ passes' = Append(passes, [read |-> Len(all), exhausted |-> TRUE])
          /\ IF b.err # "none" THEN Raise(b.err, "tail") ELSE Yield(b, "tail")
    /\ UNCHANGED <<args, frameSchema, frameChunk, schema, pulls, depth, inferRuns, inferred>>

\* After line 57 the body ends.
ItemsReturn ==
    /\ entry = "items" /\ pc = "tail" /\ BodyMayRun
    /\ Return
    /\ UNCHANGED <<args, frameSchema, frameChunk, schema, pulls, depth, inferRuns,
                   inferred, pos, passes>>

-----------------------------------------------------------------------------
(* parse_stac_ndjson_to_arrow *)

\* Lines 88-89: update_from_json has returned, having enumerated the whole
\* source, before the recursive call is made.
\* Fault variant: the recursion does not wait for the end of the pass.
InferencePassStarted == passes # <<>>
InferencePassDone == passes # <<>> /\ passes[Len(passes)].exhausted

\* Line 90: the schema argument of the recursive call.
\* Fault variant: the inferred schema is not passed on.
RecursiveSchemaArgNone == NoSchema
RecursiveSchemaArg == InferredSchema(inferred.cols)

\* Line 90: the chunk_size argument of the recursive call.
\* Fault variant: chunk_size is not passed on, the default applies.
RecursiveChunkSizeDefault == NdjsonDefaultChunkSize
RecursiveChunkSize == frameChunk

\* Line 98: the batch of one chunk.
\* Fault variant: the schema is not passed on, each chunk infers its own.
NdjsonBatchInferPerChunk(batch, s) == stac_items_to_arrow_infer(batch)
NdjsonBatch(batch, s) == stac_items_to_arrow(batch, s)

\* Lines 86-88 and 94-97: the body starts and dispatches on the schema.
NdjsonStart ==
    /\ entry = "ndjson" /\ pc = "call" /\ BodyMayRun
    /\ IF frameSchema.kind = "None"
       THEN /\ inferred' = EmptyModel
            /\ inferRuns' = inferRuns + 1
            /\ pc' = "infer"
            /\ UNCHANGED schema
       ELSE /\ schema' = Unwrap(frameSchema)
            /\ pc' = "encode"
            /\ UNCHANGED <<inferred, inferRuns>>
    /\ OpenPass
    /\ UNCHANGED <<args, frameSchema, frameChunk, requested, pulls, depth, out, err>>

\* Line 88: update_from_json folds one chunk of the source into the
\* InferredSchema, or finds the source exhausted.
InferChunk ==
    /\ entry = "ndjson" /\ pc = "infer" /\ BodyMayRun
    /\ ~passes[Len(passes)].exhausted
    /\ IF pos < Len(input)
       THEN LET end == ChunkEnd(pos, frameChunk)
                m   == UpdateFromItems(inferred, Items(pos, end))
            IN /\ pos' = end
               /\ Took(end - pos)
               /\ inferred' = m
               /\ IF m.err # "none"
                  THEN Raise(m.err, "infer")
                  ELSE UNCHANGED <<out, requested, pc, err>>
       ELSE /\ SawEnd
            /\ UNCHANGED <<pos, inferred, out, requested, pc, err>>
    /\ UNCHANGED <<args, frameSchema, frameChunk, schema, pulls, depth, inferRuns>>

\* Lines 89-91: the recursive call with the inferred schema.
Recurse ==
    /\ entry = "ndjson" /\ pc = "infer" /\ BodyMayRun
    /\ InferencePassDone
    /\ frameSchema' = RecursiveSchemaArg
    /\ frameChunk' = RecursiveChunkSize
    /\ depth' = depth + 1
    /\ pc' = "call"
    /\ UNCHANGED <<args, schema, requested, pulls, inferRuns, inferred, pos, passes,
                   out, err>>

\* Lines 97-98: one iteration of the chunk loop.
NdjsonEncodeChunk ==
    /\ entry = "ndjson" /\ pc = "encode" /\ BodyMayRun
    /\ pos < Len(input)
    /\ LET end   == ChunkEnd(pos, frameChunk)
           batch == Items(pos, end)
           b     == NdjsonBatch(batch, schema)
       IN /\ pos' = end
          /\ Took(end - pos)
          /\ IF b.err # "none" THEN Raise(b.err, "encode") ELSE Yield(b, "encode")
    /\ UNCHANGED <<args, frameSchema, frameChunk, schema, pulls, depth, inferRuns, inferred>>

\* Line 97 (and line 92 in the outer call): read_json_chunked is exhausted,
\* the loop ends and every active call returns.
NdjsonExhausted ==
    /\ entry = "ndjson" /\ pc = "encode" /\ BodyMayRun
    /\ pos >= Len(input)
    /\ SawEnd
    /\ Return
    /\ UNCHANGED <<args, frameSchema, frameChunk, schema, pulls, depth, inferRuns,
                   inferred, pos>>

Next ==
    \/ Pull
    \/ Close
    \/ ItemsStart
    \/ ItemsEncodeChunk
    \/ ItemsExhausted
    \/ ItemsSingle
    \/ ItemsReturn
    \/ NdjsonStart
    \/ InferChunk
    \/ Recurse
    \/ NdjsonEncodeChunk
    \/ NdjsonExhausted

Spec == Init /\ [][Next]_vars

-----------------------------------------------------------------------------
(* Reference computations used to state the properties *)

\* The batches of the one-pass loop (lines 49-50, 97-98) over the records
\* after position p, with chunk size c and schema s, up to the first chunk
\* whose encoding fails.
RECURSIVE OnePassFrom(_, _, _)
OnePassFrom(p, c, s) ==
    IF p >= Len(input) THEN <<>>
    ELSE LET end == ChunkEnd(p, c)
             b   == stac_items_to_arrow(Items(p, end), s)
         IN IF b.err # "none" THEN <<>>
            ELSE <<[schema |-> b.schema, rows |-> b.rows]>> \o OnePassFrom(end, c, s)

\* The rows of a sequence of batches, concatenated in order.
RECURSIVE ConcatRows(_)
ConcatRows(bs) ==
    IF bs = <<>> THEN <<>> ELSE Head(bs).rows \o ConcatRows(Tail(bs))

RECURSIVE SumRead(_)
SumRead(ps) == IF ps = <<>> THEN 0 ELSE Head(ps).read + SumRead(Tail(ps))

\* Records taken from the source so far, over all enumerations.
TotalRead == SumRead(passes)

CeilDiv(n, c) == (n + c - 1) \div c

IsPrefix(a, b) == Len(a) <= Len(b) /\ a = SubSeq(b, 1, Len(a))

\* The schema a full inference pass over the input produces.
WholeInference == UpdateFromItems(EmptyModel, Items(0, Len(input)))

SchemaSupplied == schemaArg.kind # "None"
OnePassItems   == entry = "items" /\ SchemaSupplied
TwoPass        == entry = "ndjson" /\ ~SchemaSupplied

\* The columns of a batch in which some record has a value.
Populated(b) ==
    {b.schema[c].name : c \in {c \in 1..Len(b.schema) :
                                 \E r \in 1..Len(b.rows) : b.rows[r][c].k # "null"}}

\* Every row of the batch has one value per column, of the column's type or null.
WellTyped(b) ==
    \A r \in 1..Len(b.rows) :
        /\ Len(b.rows[r]) = Len(b.schema)
        /\ \A c \in 1..Len(b.schema) : b.rows[r][c].k \in {b.schema[c].type, "null"}

-----------------------------------------------------------------------------
(* Properties *)

\* C1: all batches yielded by one invocation of either entry point, with or
\* without a schema, have the same schema (column names, order, types), and
\* every batch is laid out as that schema says, also when different chunks
\* populate different sets of fields.
C1_SchemaUniform ==
    /\ \A i, j \in 1..Len(out) : out[i].schema = out[j].schema
    /\ \A i \in 1..Len(out) : WellTyped(out[i])

\* C1 witness: two batches of one invocation populate different sets of fields.
C1_Witness ==
    /\ Len(out) >= 2
    /\ \E i, j \in 1..Len(out) : Populated(out[i]) # Populated(out[j])

\* C2: with a schema, parse_stac_items_to_arrow enumerates the input once,
\* every batch holds between 1 and chunk_size records, the concatenated
\* batches are the encoded input records in input order, and on completion
\* there are ceil(n / chunk_size) batches holding all n records.
C2_OneBatchPerChunk ==
    OnePassItems =>
        /\ Len(passes) <= 1
        /\ \A i \in 1..Len(out) :
              Len(out[i].rows) >= 1 /\ Len(out[i].rows) <= chunk_size
        /\ LET rows == ConcatRows(out) IN
           /\ Len(rows) <= Len(input)
           /\ rows = [i \in 1..Len(rows) |-> EncodeRow(Normalize(Item(i)), schema)]
           /\ pc = "done" =>
                 /\ Len(out) = CeilDiv(Len(input), chunk_size)
                 /\ Len(rows) = Len(input)
                 /\ passes = <<[read |-> Len(input), exhausted |-> TRUE]>>

\* C2 witness: a completed one-pass run of several chunks, the last one short.
C2_Witness ==
    /\ OnePassItems /\ pc = "done"
    /\ Len(out) >= 2
    /\ Len(out[Len(out)].rows) < chunk_size

\* C3: without a schema, parse_stac_items_to_arrow yields at most one batch,
\* and on completion exactly one batch that holds every input record in
\* order, whatever chunk_size is.
C3_SingleBatch ==
    (entry = "items" /\ ~SchemaSupplied) =>
        /\ Len(out) <= 1
        /\ pc \in {"tail", "done"} =>
              /\ Len(out) = 1
              /\ out[1].rows = [i \in 1..Len(input) |->
                                   EncodeRow(Normalize(Item(i)), out[1].schema)]

\* C3 witness: a completed no-schema run over more records than chunk_size.
C3_Witness ==
    /\ entry = "items" /\ ~SchemaSupplied
    /\ pc = "done"
    /\ Len(input) > chunk_size

\* C4: in two-pass mode no batch exists while inference is in progress; when
\* a batch exists the inference enumeration has run to the end of the source
\* having read all n records and a second enumeration is under way; on
\* completion the source has been enumerated to its end exactly twice (and
\* 2n records were read when the source is re-enumerable).
C4_InferenceBeforeOutput ==
    TwoPass =>
        /\ pc = "infer" => out = <<>>
        /\ Len(passes) <= 2
        /\ out # <<>> =>
              /\ Len(passes) = 2
              /\ passes[1] = [read |-> Len(input), exhausted |-> TRUE]
        /\ pc = "done" =>
              /\ Len(passes) = 2
              /\ passes[1] = [read |-> Len(input), exhausted |-> TRUE]
              /\ passes[2].exhausted
              /\ replayable => passes[2].read = Len(input)

\* C4 witness: a two-pass run that completed after yielding batches.
C4_Witness ==
    /\ TwoPass /\ pc = "done"
    /\ Len(out) >= 2
    /\ TotalRead = 2 * Len(input)

\* C5: on a re-enumerable input, two-pass mode yields a prefix of, and on
\* completion exactly, the batch sequence one-pass mode yields for the same
\* chunk_size and the schema a full inference pass infers.
C5_TwoPassEqualsOnePass ==
    (TwoPass /\ replayable) =>
        /\ IsPrefix(out, OnePassFrom(0, chunk_size, WholeInference.cols))
        /\ pc = "done" => out = OnePassFrom(0, chunk_size, WholeInference.cols)

\* C5 witness: a completed two-pass run of several batches whose schema was
\* widened during inference.
C5_Witness ==
    /\ TwoPass /\ replayable /\ pc = "done"
    /\ Len(out) >= 2
    /\ Col("x", "float") \in {schema[i] : i \in 1..Len(schema)}
    /\ \E i \in 1..Len(input) : input[i] = ("x" :> IntV(1))

\* C6 (as claimed): two-pass mode on a one-shot source consumes no input and
\* ends with NonReplayableSourceError.
C6_FailsFast ==
    (TwoPass /\ ~replayable) =>
        /\ TotalRead = 0
        /\ pc # "done"
        /\ pc = "failed" => err = "NonReplayableSourceError"

\* C7: nothing is read or computed before the first next(); the caller never
\* holds more batches than it asked for; with a schema, at most chunk_size
\* records have been read per batch requested, and while no error occurred
\* at most chunk_size per batch delivered, so a caller that stops leaves the
\* rest of the input unread.
C7_PullBased ==
    /\ pulls = 0 => (pc \in {"call", "closed"} /\ passes = <<>> /\ out = <<>>)
    /\ Len(out) <= pulls
    /\ SchemaSupplied =>
          /\ TotalRead <= pulls * chunk_size
          /\ err = "none" => TotalRead <= Len(out) * chunk_size

\* C7 witness: the caller stopped after some batches with input left unread.
C7_Witness ==
    /\ SchemaSupplied /\ pc = "closed"
    /\ Len(out) >= 1
    /\ TotalRead < Len(input)

\* C8: with a schema, a completed conversion holds all n records and its
\* concatenated rows equal those of chunk size 1 and those of chunk size 8192.
C8_ChunkingInvariance ==
    (SchemaSupplied /\ pc = "done") =>
        /\ Len(ConcatRows(out)) = Len(input)
        /\ ConcatRows(out) = ConcatRows(OnePassFrom(0, 1, Unwrap(schemaArg)))
        /\ ConcatRows(out) =
              ConcatRows(OnePassFrom(0, ItemsDefaultChunkSize, Unwrap(schemaArg)))

\* C8 witness: a completed run with 1 < chunk_size < n in which an integer
\* was stored in a floating-point column.
C8_Witness ==
    /\ SchemaSupplied /\ pc = "done"
    /\ chunk_size > 1 /\ Len(out) >= 2
    /\ \E i \in 1..Len(input) : input[i] = ("x" :> IntV(1))
    /\ Col("x", "float") \in {schema[i] : i \in 1..Len(schema)}

\* C9: an error is terminal and reaches the caller; with a schema the batches
\* yielded are exactly those of the chunks before the first failing chunk,
\* and a run over an input with a failing chunk never completes normally; if
\* inference fails in two-pass mode (or in the single-batch branch) no batch
\* is yielded.
C9_ErrorsTerminal ==
    /\ (err # "none") <=> (pc = "failed")
    /\ pc = "failed" => ~requested
    /\ SchemaSupplied =>
          LET ref == OnePassFrom(0, chunk_size, Unwrap(schemaArg)) IN
          /\ IsPrefix(out, ref)
          /\ pc = "done" => Len(ref) = CeilDiv(Len(input), chunk_size)
          /\ pc = "failed" => (err = Mismatch /\ out = ref)
    /\ ~SchemaSupplied =>
          /\ pc = "failed" => (err = Unsupported /\ out = <<>>)
          /\ WholeInference.err # "none" => (out = <<>> /\ pc # "done")

\* C9 witness: a chunk failed to encode after earlier chunks were yielded.
C9_Witness ==
    /\ SchemaSupplied /\ pc = "failed"
    /\ Len(out) >= 1

\* C10: in two-pass mode the function recurses at most once, with an
\* InferredSchema that is unwrapped before encoding; inference runs once; the
\* source is enumerated at most twice; and the caller reaches the end of the
\* batch sequence within (number of chunks + 1) calls of next().
C10_RecursesOnce ==
    TwoPass =>
        /\ depth <= 1 /\ inferRuns <= 1
        /\ Len(passes) <= 2
        /\ depth = 1 =>
              /\ frameSchema = InferredSchema(inferred.cols)
              /\ inferRuns = 1
              /\ pc \in {"encode", "done", "failed"} => schema = inferred.cols
        /\ pc = "done" => (depth = 1 /\ inferRuns = 1)
        /\ pulls <= CeilDiv(Len(input), chunk_size) + 1

\* C10 witness: a completed two-pass run that recursed and yielded batches.
C10_Witness ==
    /\ TwoPass /\ pc = "done"
    /\ depth = 1 /\ Len(out) >= 1

====
